---- MODULE Spec2Model ----
(***************************************************************************)
(* Glucose-Monitor-App (GlucoseTracker-1): the alerting component          *)
(* (utils/alert_manager.py), the series statistics                         *)
(* (utils/data_processor.py, components/statistics.py), the telemetry      *)
(* client (utils/nightscout_api.py), the persistence calls                 *)
(* (utils/db_utils.py, models/models.py) and the refresh cycle of the      *)
(* dashboard (app.py main, components/glucose_display.py), for one session *)
(* and for two sessions served by one process.                             *)
(*                                                                         *)
(* Python values: None is the string "None", the empty string is "", any   *)
(* other string stands for a non-empty value.  Glucose values are the      *)
(* integers (mg/dL) that the Nightscout sgv field carries.  A mean is kept *)
(* exactly, as the pair num/den.                                           *)
(***************************************************************************)
EXTENDS Integers, Sequences, FiniteSets, TLC

VARIABLES
    \* os.environ and the class attributes of AlertManager
    environ, client, from_number, email_password,
    \* the last AlertManager call and a summary of the one before it
    last, prev,
    \* a series handed to DataProcessor, the snapshot computed from it, what
    \* display_statistics rendered, and how far that has got
    df, stats, shown, spc,
    \* the frame process_glucose_data returned for df
    processed,
    \* st.session_state: phone_number, enable_alerts, low_threshold, high_threshold
    ss_phone_number, enable_alerts, low_threshold, high_threshold,
    \* one run of main(): where it is, the email and URL typed, the
    \* current reading, the advice panel, what display_current_glucose showed,
    \* the sidebar notice, the error shown
    pc, user_email, nightscout_url, current_glucose, advice, status_message, notice, error,
    \* the sgv the previous run dispatched an alert for (0: it dispatched none)
    prev_sgv,
    \* what the run has been through so far
    trace,
    \* a NightscoutAPI object and the call made on it
    api, fetch,
    \* the UTC offset of the process's time zone (minutes), the users and
    \* glucose_readings tables, the last DatabaseManager call, and for each
    \* email what the calls so far passed for it
    tz, users, readings, dbcall, passed

alertVars == <<environ, client, from_number, email_password, last, prev>>

statsVars == <<df, stats, shown, spc, processed>>

sessionVars == <<ss_phone_number, enable_alerts, low_threshold, high_threshold>>

runVars == <<pc, user_email, nightscout_url, current_glucose, advice, status_message, notice, error,
             prev_sgv, trace>>

apiVars == <<api, fetch>>

dbVars == <<tz, users, readings, dbcall, passed>>

appVars == <<ss_phone_number, enable_alerts, low_threshold, high_threshold,
             pc, user_email, nightscout_url, current_glucose, advice, status_message, notice, error,
             prev_sgv, trace>>

vars == <<environ, client, from_number, email_password, last, prev,
          df, stats, shown, spc, processed,
          ss_phone_number, enable_alerts, low_threshold, high_threshold,
          pc, user_email, nightscout_url, current_glucose, advice, status_message, notice, error,
          prev_sgv, trace, api, fetch, tz, users, readings, dbcall, passed>>

-----------------------------------------------------------------------------
(* Python values *)

None == "None"

\* Python truthiness of an Optional[str]: None and '' are falsy.
Truthy(x) == x # None /\ x # ""

\* What an environment variable can hold: unset, set to '', set to a value.
EnvValues == {None, "", "set"}

Environments ==
    [TWILIO_ACCOUNT_SID : EnvValues, TWILIO_AUTH_TOKEN : EnvValues,
     TWILIO_PHONE_NUMBER : EnvValues, EMAIL_PASSWORD : EnvValues]

\* Destinations handed to send_glucose_alert (both parameters default to None).
PhoneArgs == {None, "+1234567890"}
EmailArgs == {None, "user@example.com"}
AlertTypes == {"high", "low"}

\* What the provider does with one request: accepts it, or raises.
ProviderOutcomes == {"ok", "raise"}

\* A naive datetime is a number of minutes counted from midnight of day 0; an
\* Optional[datetime] is a set, empty for None.
NoTimestamp == {}

Timestamp(t) == {t}

\* Glucose values and reading times handed to send_glucose_alert (None, or
\* 13:05 on day 1), and what datetime.now() gives (00:05 on day 0).
AlertValues == {65, 250}
TimestampArgs == {NoTimestamp, Timestamp(2225)}
NowValues == {5}

-----------------------------------------------------------------------------
(* utils/alert_manager.py *)

\* The class attributes as one record.
Cls == [client |-> client, from_number |-> from_number, email_password |-> email_password]

\* AlertManager._initialize_client: re-reads the four environment variables.
\* Client(sid, token) is built only when both are truthy.
initialize_client(env) ==
    LET has == Truthy(env.TWILIO_ACCOUNT_SID) /\ Truthy(env.TWILIO_AUTH_TOKEN)
    IN  [cls |-> [client |-> IF has THEN "Client" ELSE None,
                  from_number |-> env.TWILIO_PHONE_NUMBER,
                  email_password |-> env.EMAIL_PASSWORD],
         log |-> (IF has THEN {"Twilio client initialized successfully"}
                         ELSE {"Missing Twilio credentials"})
                 \cup (IF Truthy(env.EMAIL_PASSWORD)
                          THEN {"Email credentials initialized successfully"} ELSE {})]

\* AlertManager.can_send_alerts: initializes when either the client or the
\* email password is still None, then tests the attributes against None.
can_send_alerts(cls, env) ==
    LET c == IF cls.client = None \/ cls.email_password = None
             THEN initialize_client(env).cls ELSE cls
        sms_configured == c.client # None /\ c.from_number # None
        email_configured == c.email_password # None
    IN  [cls |-> c, result |-> sms_configured \/ email_configured]

\* f"{glucose_value:.0f}" of an integer value: its decimal numeral, kept as
\* the number it denotes.
format_0f(glucose_value) == glucose_value

\* strftime("%I:%M %p"): the hour on the 12-hour clock, the minute, AM or PM.
time_str(t) ==
    LET hour == (t \div 60) % 24
    IN  [hour12 |-> IF hour % 12 = 0 THEN 12 ELSE hour % 12,
         minute |-> t % 60,
         ampm |-> IF hour < 12 THEN "AM" ELSE "PM"]

\* strftime("%B %d, %Y"): the calendar day.
date_str(t) == [day |-> t \div 1440]

\* timestamp if timestamp else datetime.now()
time_of(timestamp, now) ==
    IF timestamp # NoTimestamp THEN CHOOSE t \in timestamp : TRUE ELSE now

\* str.upper() of the alert type.
upper(alert_type) ==
    CASE alert_type = "high" -> "HIGH"
      [] alert_type = "low" -> "LOW"
      [] OTHER -> alert_type

\* An SMS text that gives every alert the wording of the high alert.
sms_message_always_high(glucose_value, timestamp, alert_type, now) ==
    [heading |-> "HIGH GLUCOSE ALERT", value |-> format_0f(glucose_value),
     time |-> time_str(time_of(timestamp, now)), target_range |-> "above"]

\* Lines 246-253: the SMS text, as the fields it carries.
sms_message(glucose_value, timestamp, alert_type, now) ==
    LET t == time_str(time_of(timestamp, now))
    IN  CASE alert_type = "high" ->
               [heading |-> "HIGH GLUCOSE ALERT", value |-> format_0f(glucose_value),
                time |-> t, target_range |-> "above"]
          [] alert_type = "low" ->
               [heading |-> "LOW GLUCOSE ALERT", value |-> format_0f(glucose_value),
                time |-> t, target_range |-> "below"]
          [] OTHER ->
               [heading |-> "GLUCOSE ALERT", value |-> format_0f(glucose_value),
                time |-> t, target_range |-> "none"]

\* Lines 94-105: the heading of the email for the alert type.
alert_heading(alert_type) ==
    CASE alert_type = "high" -> "HIGH GLUCOSE ALERT"
      [] alert_type = "low" -> "LOW GLUCOSE ALERT"
      [] OTHER -> "GLUCOSE ALERT"

\* Lines 90-193: the email, as the fields its subject, its plain text and its
\* HTML part carry.
email_message(glucose_value, timestamp, alert_type, now) ==
    LET t == time_of(timestamp, now)
        body == [heading |-> alert_heading(alert_type),
                 value |-> format_0f(glucose_value),
                 time |-> time_str(t), date |-> date_str(t),
                 status |-> upper(alert_type)]
    IN  [subject |-> [heading |-> alert_heading(alert_type),
                      value |-> format_0f(glucose_value)],
         text |-> body, html |-> body]

\* AlertManager.send_email_alert: two early returns, then one SMTP session
\* inside try/except.  smtp is what the SMTP server does with the session;
\* messages are those handed to it.
send_email_alert(cls, to_email, glucose_value, timestamp, alert_type, now, smtp) ==
    LET msg == email_message(glucose_value, timestamp, alert_type, now)
    IN  IF ~Truthy(to_email) THEN
            [sent |-> FALSE, attempts |-> 0, delivered |-> FALSE, messages |-> {},
             raised |-> FALSE, log |-> {"No recipient email provided."}]
        ELSE IF ~Truthy(cls.email_password) THEN
            [sent |-> FALSE, attempts |-> 0, delivered |-> FALSE, messages |-> {},
             raised |-> FALSE,
             log |-> {"Email password not configured, cannot send email alerts."}]
        ELSE IF Truthy(cls.email_password) /\ smtp = "raise" THEN
            [sent |-> FALSE, attempts |-> 1, delivered |-> FALSE, messages |-> {msg},
             raised |-> FALSE, log |-> {"Failed to send email alert"}]
        ELSE
            [sent |-> TRUE,
             attempts |-> IF Truthy(cls.email_password) THEN 1 ELSE 0,
             delivered |-> Truthy(cls.email_password),
             messages |-> IF Truthy(cls.email_password) THEN {msg} ELSE {},
             raised |-> FALSE, log |-> {"Email alert sent"}]

\* An except clause of the SMS block that lets the exception through.
sms_except_reraise(c, init_log) ==
    [cls |-> c, success |-> FALSE, attempts |-> 1, delivered |-> FALSE,
     raised |-> TRUE, log |-> init_log]

\* Lines 270-271: the exception is printed and the method goes on.
sms_except(c, init_log) ==
    [cls |-> c, success |-> FALSE, attempts |-> 1, delivered |-> FALSE,
     raised |-> FALSE, log |-> init_log \cup {"Failed to send SMS alert"}]

\* send_glucose_alert, the SMS block (lines 242-271): runs only with a
\* destination; initializes when the client is None; sends when client and
\* sender number are truthy; any exception is caught and printed.
sms_block(cls, env, to_number, twilio) ==
    IF ~Truthy(to_number) THEN
        [cls |-> cls, success |-> FALSE, attempts |-> 0, delivered |-> FALSE,
         raised |-> FALSE, log |-> {}]
    ELSE
        LET init == IF cls.client = None THEN initialize_client(env)
                    ELSE [cls |-> cls, log |-> {}]
            c == init.cls
        IN  IF Truthy(c.client) /\ Truthy(c.from_number) THEN
                IF twilio = "ok" THEN
                    [cls |-> c, success |-> TRUE, attempts |-> 1, delivered |-> TRUE,
                     raised |-> FALSE, log |-> init.log \cup {"Alert sent"}]
                ELSE sms_except(c, init.log)
            ELSE
                [cls |-> c, success |-> FALSE, attempts |-> 0, delivered |-> FALSE,
                 raised |-> FALSE,
                 log |-> init.log \cup {"SMS alerts not configured properly"}]

\* Line 274: the email block runs whenever an email destination was given.
email_block_runs_skip_after_sms(success, to_email) == Truthy(to_email) /\ ~success

email_block_runs(success, to_email) == Truthy(to_email)

\* Line 282: success = success or email_sent.
combine_success_overwrite(success, email_sent) == email_sent

combine_success(success, email_sent) == success \/ email_sent

\* AlertManager.send_glucose_alert: the SMS block, then the email block, then
\* the one boolean it returns.  The record also carries what each channel did
\* (requests made, requests accepted, messages handed over), what was printed
\* and whether an exception left the method; an exception that leaves the SMS
\* block ends the method before the email block.
send_glucose_alert(cls, env, to_number, glucose_value, timestamp, alert_type, to_email, now, twilio, smtp) ==
    LET sms == sms_block(cls, env, to_number, twilio)
        runs == ~sms.raised /\ email_block_runs(sms.success, to_email)
        mail == IF runs THEN send_email_alert(sms.cls, to_email, glucose_value, timestamp,
                                              alert_type, now, smtp)
                ELSE [sent |-> FALSE, attempts |-> 0, delivered |-> FALSE,
                      messages |-> {}, raised |-> FALSE, log |-> {}]
    IN  [cls |-> sms.cls,
         success |-> IF runs THEN combine_success(sms.success, mail.sent) ELSE sms.success,
         raised |-> sms.raised,
         sms_attempts |-> sms.attempts, sms_delivered |-> sms.delivered,
         sms_messages |-> IF sms.attempts = 1
                          THEN {sms_message(glucose_value, timestamp, alert_type, now)}
                          ELSE {},
         email_attempts |-> mail.attempts, email_delivered |-> mail.delivered,
         email_messages |-> mail.messages,
         log |-> sms.log \cup mail.log]

-----------------------------------------------------------------------------
(* utils/data_processor.py and components/statistics.py *)

\* Longest series drawn.
MaxLen == 3

\* sgv values drawn for a series: both sides of the fixed 70 and 180.
SgvValues == {69, 70, 180, 181}

RECURSIVE AllSeries(_)
AllSeries(n) ==
    IF n = 0 THEN {<< >>}
    ELSE LET shorter == AllSeries(n - 1)
         IN  shorter \cup {Append(s, v) : s \in {t \in shorter : Len(t) = n - 1}, v \in SgvValues}

Series == AllSeries(MaxLen)

RECURSIVE series_sum(_)
\* Series.sum()
series_sum(s) == IF s = << >> THEN 0 ELSE Head(s) + series_sum(Tail(s))

\* df['sgv'].iloc[0]
series_first(s) == s[1]

\* A maximum that takes the first row for the largest.
series_max_first_row(s) == s[1]

\* Series.max()
series_max(s) == CHOOSE v \in {s[i] : i \in DOMAIN s} : \A i \in DOMAIN s : s[i] <= v

\* Series.min()
series_min(s) == CHOOSE v \in {s[i] : i \in DOMAIN s} : \A i \in DOMAIN s : v <= s[i]

\* Series.mean(), exactly: sum / count.
series_mean(s) == [num |-> series_sum(s), den |-> Len(s)]

\* Series.std(): the sample standard deviation (N-1 denominator), kept as its
\* square, the fraction var_num / var_den.  A single sample gives 0 / 0: the
\* value is NaN exactly when var_den is 0.
series_std(s) ==
    LET n == Len(s)
        sq == [i \in DOMAIN s |-> s[i] * s[i]]
    IN  [var_num |-> n * series_sum(sq) - series_sum(s) * series_sum(s),
         var_den |-> n * (n - 1)]

\* A time-in-range that counts against the user's alert thresholds.
in_range_percent_thresholds(s) ==
    LET flags == [i \in DOMAIN s |->
                    IF s[i] >= low_threshold /\ s[i] <= high_threshold THEN 1 ELSE 0]
    IN  [num |-> 100 * series_sum(flags), den |-> Len(s)]

\* ((df['sgv'] >= 70) & (df['sgv'] <= 180)).mean() * 100
in_range_percent(s) ==
    LET flags == [i \in DOMAIN s |-> IF s[i] >= 70 /\ s[i] <= 180 THEN 1 ELSE 0]
    IN  [num |-> 100 * series_sum(flags), den |-> Len(s)]

\* A guard-less variant: the statistics of an empty frame are all NaN.
calculate_statistics_unguarded(d) ==
    IF d = << >> THEN
        [current |-> "NaN", average |-> "NaN", std |-> "NaN",
         max |-> "NaN", min |-> "NaN", in_range |-> "NaN"]
    ELSE
        [current |-> series_first(d), average |-> series_mean(d), std |-> series_std(d),
         max |-> series_max(d), min |-> series_min(d), in_range |-> in_range_percent(d)]

\* DataProcessor.calculate_statistics: {} for an empty frame, else the six
\* fields of the snapshot.
calculate_statistics(d) ==
    IF d = << >> THEN << >>
    ELSE
        [current |-> series_first(d), average |-> series_mean(d), std |-> series_std(d),
         max |-> series_max(d), min |-> series_min(d), in_range |-> in_range_percent(d)]

\* rolling(window=12)
Window == 12

\* Longest series handed to process_glucose_data.
RollLen == 20

\* Series around the window length: n samples of one value followed, from
\* position k on, by another.
LongSeries ==
    {[i \in 1..n |-> IF i < k THEN a ELSE b] :
        n \in (Window - 1)..RollLen, k \in 1..RollLen, a \in {70, 181}, b \in {70, 181}}

\* A rolling value that is not there (NaN): the empty set; a value that is
\* there: the set holding it.
Missing == {}

\* A rolling mean that starts with the first sample (min_periods=1).
rolling_mean_partial(s, i) ==
    {series_mean(SubSeq(s, IF i < Window THEN 1 ELSE i - Window + 1, i))}

\* df['sgv'].rolling(window=12).mean() at position i: NaN until the window
\* holds 12 samples, then the mean of the samples i-11..i.
rolling_mean(s, i) ==
    IF i < Window THEN Missing
    ELSE {series_mean(SubSeq(s, i - Window + 1, i))}

\* df['sgv'].rolling(window=12).std() at position i, as the variance.
rolling_std(s, i) ==
    IF i < Window THEN Missing
    ELSE {series_std(SubSeq(s, i - Window + 1, i))}

\* DataProcessor.process_glucose_data: the frame unchanged when empty, else
\* the same rows in the same order, each with its two rolling columns.
process_glucose_data(d) ==
    IF d = << >> THEN d
    ELSE [i \in DOMAIN d |->
            [sgv |-> d[i], rolling_avg |-> rolling_mean(d, i),
             rolling_std |-> rolling_std(d, i)]]

\* processed_df['sgv']
sgv_column(p) == [i \in DOMAIN p |-> p[i].sgv]

\* display_statistics: a warning and nothing else for a falsy snapshot, else
\* the five metric cards.
display_statistics(st) ==
    IF DOMAIN st = {} THEN [warning |-> "No data available for statistics", metrics |-> {}]
    ELSE [warning |-> None, metrics |-> {"average", "in_range", "std", "min", "max"}]

-----------------------------------------------------------------------------
(* app.py: the pure parts of main() *)

\* Defaults of initialize_session_state and the limits of the two number inputs.
DefaultLow == 70
DefaultHigh == 180
LowMin == 40
LowMax == 100
HighMin == 120
HighMax == 300

\* Numbers a user may try to enter in a threshold field.
TypedNumbers == {30, 40, 70, 100, 110, 120, 180, 300, 310}

\* st.number_input(min_value, max_value): the widget only ever returns a value
\* inside its limits.
number_input(min_value, max_value) ==
    {v \in TypedNumbers : min_value <= v /\ v <= max_value}

\* A low-threshold field whose upper limit reaches into the high range.
LowThresholdInputs_wide == number_input(LowMin, HighMax)

\* "Low Alert (mg/dL)": min_value=40, max_value=100.
LowThresholdInputs == number_input(LowMin, LowMax)

\* "High Alert (mg/dL)": min_value=120, max_value=300.
HighThresholdInputs == number_input(HighMin, HighMax)

\* Texts typed into the sidebar fields, with their characters.
Chars ==
    [t \in {"", "user", "user@example.com", "555-1234", "+1234567890"} |->
        CASE t = "" -> << >>
          [] t = "user" -> <<"u", "s", "e", "r">>
          [] t = "user@example.com" ->
                <<"u", "s", "e", "r", "@", "e", "x", "a", "m", "p", "l", "e", ".", "c", "o", "m">>
          [] t = "555-1234" -> <<"5", "5", "5", "-", "1", "2", "3", "4">>
          [] t = "+1234567890" ->
                <<"+", "1", "2", "3", "4", "5", "6", "7", "8", "9", "0">>]

EmailInputs == {"", "user", "user@example.com"}
PhoneInputs == {"", "555-1234", "+1234567890"}

Placeholder == "https://your-nightscout-url.herokuapp.com"
UrlInputs == {"", Placeholder, "https://ns.example.org"}

Digits == {"0", "1", "2", "3", "4", "5", "6", "7", "8", "9"}

\* validate_email: '@' in email and '.' in email.
validate_email(email) ==
    LET c == Chars[email]
    IN  (\E i \in DOMAIN c : c[i] = "@") /\ (\E i \in DOMAIN c : c[i] = ".")

\* validate_phone: at least 10 characters that are digits or '+', the first of
\* them a digit or '+'.
validate_phone(phone) ==
    LET c == Chars[phone]
        clean == SelectSeq(c, LAMBDA ch : ch \in Digits \cup {"+"})
    IN  Len(clean) >= 10 /\ clean[1] \in Digits \cup {"+"}

\* Lines 84-90: a non-empty phone field replaces the stored number (None when
\* invalid); an empty field leaves it.
stored_phone(phone_in, stored) ==
    IF phone_in # "" THEN (IF validate_phone(phone_in) THEN phone_in ELSE None)
    ELSE stored

\* sgv values a reading may carry: both sides of each threshold limit.
GlucoseValues == {39, 40, 99, 100, 120, 121, 300, 301}

\* _generate_current_sample: random.randint(80, 180).
DevSampleValues == {v \in GlucoseValues : 80 <= v /\ v <= 180}

\* The 'date' of the newest entry: epoch time, here in minutes (13:05 UTC on
\* day 1).
ReadingDate == 2225

\* What get_current_glucose returns, as a set: empty for None, else the one
\* entry with its sgv and its date.
NoReading == {}

Reading(v) == {[sgv |-> v, date |-> ReadingDate]}

\* current_glucose.get('date', 0) of an entry that is there.
date_of(cur) == (CHOOSE r \in cur : TRUE).date

\* datetime.fromtimestamp(date / 1000): the naive local time of the instant,
\* in a zone offset minutes ahead of UTC.
fromtimestamp(date, offset) == date + offset

\* current_glucose.get('sgv', 0) of an entry that is there.
sgv_of(cur) == (CHOOSE r \in cur : TRUE).sgv

\* Line 221: current_glucose.get('sgv', 0) if current_glucose else 0.
glucose_value_of(cur) == IF cur # NoReading THEN sgv_of(cur) ELSE 0

\* components/glucose_display.py, display_current_glucose: the error shown
\* when there is no entry (lines 7-9), else the status_message chosen for the
\* value against 70 and 180 (lines 27-38).
display_current_glucose(glucose_data) ==
    IF glucose_data = NoReading THEN "Unable to fetch current glucose data"
    ELSE LET value == sgv_of(glucose_data)
         IN  IF value < 70 THEN "Low Glucose Alert"
             ELSE IF value > 180 THEN "High Glucose Alert"
             ELSE "In Range"

\* An advice selection that counts a value on a limit as outside.
advice_for_closed(value, low, high) ==
    IF value >= high THEN "HIGH" ELSE IF value <= low THEN "LOW" ELSE "none"

\* Lines 224-271: the advice panel shown for the value.
advice_for(value, low, high) ==
    IF value > high THEN "HIGH" ELSE IF value < low THEN "LOW" ELSE "none"

\* Lines 283 and 298: the alert sent for the value, if any.
alert_type_for(value, low, high) ==
    IF value > high THEN "high" ELSE IF value < low THEN "low" ELSE "none"

\* An alert gate that ignores the enable switch.
alerts_gate_always(enabled, phone, email, cur) ==
    (Truthy(phone) \/ Truthy(email)) /\ cur # NoReading

\* An alert gate that drops a reading already alerted in the previous run.
alerts_gate_once(enabled, phone, email, cur) ==
    /\ enabled /\ (Truthy(phone) \/ Truthy(email)) /\ cur # NoReading
    /\ cur # Reading(prev_sgv)

\* Lines 274-276: the conditions tested before can_send_alerts() is called.
alerts_gate(enabled, phone, email, cur) ==
    enabled /\ (Truthy(phone) \/ Truthy(email)) /\ cur # NoReading

-----------------------------------------------------------------------------
(* utils/nightscout_api.py *)

\* URLs handed to the constructor: those of the sidebar field, and two that
\* end in a slash.
PlaceholderSlash == "https://your-nightscout-url.herokuapp.com/"
ApiUrls == UrlInputs \cup {PlaceholderSlash, "https://ns.example.org/"}

\* base_url.rstrip('/')
rstrip_slash(base_url) ==
    CASE base_url = PlaceholderSlash -> Placeholder
      [] base_url = "https://ns.example.org/" -> "https://ns.example.org"
      [] OTHER -> base_url

\* NightscoutAPI.__init__: the stripped URL is kept; dev_mode compares the
\* argument as given with the placeholder.  arg is the argument itself.
NightscoutAPI(base_url) ==
    [arg |-> base_url, base_url |-> rstrip_slash(base_url),
     dev_mode |-> base_url = Placeholder]

\* Longest window asked of get_glucose_data, in hours.
MaxHours == 2

\* random.randint(-20, 20): both ends and the middle.
RandomSteps == {-20, 0, 20}

\* random.randint(80, 180): both ends and a value between.
SampleSgv == {80, 130, 180}

\* What the remote endpoint does with a request for the newest entry: returns
\* it, returns an empty list, or the request fails.
RemoteOutcomes == {"entry", "empty", "fail"}

\* len(range(hours*12))
sample_count(hours) == hours * 12

\* A limit that only cuts off high values.
clamp_upper_only(glucose) == IF glucose > 250 THEN 250 ELSE glucose

\* max(60, min(250, glucose))
clamp(glucose) ==
    LET capped == IF glucose > 250 THEN 250 ELSE glucose
    IN  IF capped < 60 THEN 60 ELSE capped

\* Lines 62-66, one pass of the loop: the walk moves by the random step and
\* goes on from the unlimited value; the row gets the limited one.
next_sample(base_glucose, step) ==
    LET glucose == base_glucose + step
    IN  [base_glucose |-> glucose, sgv |-> clamp(glucose)]

\* No call made on the object yet.
NoFetch ==
    [op |-> "none", hours |-> 0, synthetic |-> FALSE, remote_calls |-> 0,
     outcome |-> "none", running |-> FALSE, rows |-> 0, base_glucose |-> 0, sgv |-> 0]

\* A get_current_glucose that answers a failed request with a sample.
get_current_glucose_fallback(self, remote, entry_sgv, sample) ==
    IF self.dev_mode \/ remote = "fail" THEN
        [NoFetch EXCEPT !.op = "get_current_glucose", !.synthetic = TRUE,
                        !.remote_calls = IF self.dev_mode THEN 0 ELSE 1,
                        !.outcome = "entry", !.sgv = sample]
    ELSE
        [NoFetch EXCEPT !.op = "get_current_glucose", !.remote_calls = 1,
                        !.outcome = remote,
                        !.sgv = IF remote = "entry" THEN entry_sgv ELSE 0]

\* NightscoutAPI.get_current_glucose: the sample in dev mode; else one request,
\* which gives data[0], None for an empty list, or raises.
get_current_glucose(self, remote, entry_sgv, sample) ==
    IF self.dev_mode THEN
        [NoFetch EXCEPT !.op = "get_current_glucose", !.synthetic = TRUE,
                        !.outcome = "entry", !.sgv = sample]
    ELSE
        [NoFetch EXCEPT !.op = "get_current_glucose", !.remote_calls = 1,
                        !.outcome = IF remote = "fail" THEN "raised" ELSE remote,
                        !.sgv = IF remote = "entry" THEN entry_sgv ELSE 0]

\* NightscoutAPI.get_glucose_data up to the loop of _generate_sample_data: in
\* dev mode the walk starts at 120 with no row yet; else one request, which
\* gives a frame of the rows returned or raises.
get_glucose_data(self, hours, remote, entry_sgv) ==
    IF self.dev_mode THEN
        [NoFetch EXCEPT !.op = "get_glucose_data", !.hours = hours, !.synthetic = TRUE,
                        !.outcome = "frame", !.running = TRUE, !.base_glucose = 120]
    ELSE
        [NoFetch EXCEPT !.op = "get_glucose_data", !.hours = hours, !.remote_calls = 1,
                        !.outcome = IF remote = "fail" THEN "raised" ELSE "frame",
                        !.rows = IF remote = "entry" THEN 1 ELSE 0,
                        !.sgv = IF remote = "entry" THEN entry_sgv ELSE 0]

-----------------------------------------------------------------------------
(* utils/db_utils.py and models/models.py.  A table is the sequence of its  *)
(* rows in the order of their ids.                                          *)

\* Emails, phone numbers and URLs handed to get_or_create_user.
DbEmails == {"a@example.com", "b@example.com"}
DbPhones == {None, "", "+1234567890", "+1987654321"}
DbUrls == {Placeholder, "https://ns.example.org"}

\* What db.commit() does: commits, or raises.
CommitOutcomes == {"ok", "raise"}

\* A lookup that never finds a row.
user_by_email_none(tbl, email) == 0

\* db.query(User).filter(User.email == email).first(): the id of the row, 0
\* for None.
user_by_email(tbl, email) ==
    LET ids == {i \in DOMAIN tbl : tbl[i].email = email}
    IN  IF ids = {} THEN 0 ELSE CHOOSE i \in ids : \A j \in ids : i <= j

\* DatabaseManager.get_or_create_user: a row is added for an email that has
\* none, else the row is updated with a URL that is given and is not the
\* placeholder and with a phone number that is given; a failing commit is
\* rolled back and raised.
get_or_create_user(tbl, email, url, phone_number, commit) ==
    LET id == user_by_email(tbl, email)
    IN  IF commit = "raise" THEN [users |-> tbl, raised |-> TRUE, user_id |-> 0]
        ELSE IF id = 0 THEN
            [users |-> Append(tbl, [email |-> email, nightscout_url |-> url,
                                    phone_number |-> IF Truthy(phone_number)
                                                     THEN phone_number ELSE None]),
             raised |-> FALSE, user_id |-> Len(tbl) + 1]
        ELSE
            [users |-> [tbl EXCEPT
                          ![id].nightscout_url =
                              IF Truthy(url) /\ url # Placeholder THEN url ELSE @,
                          ![id].phone_number =
                              IF Truthy(phone_number) THEN phone_number ELSE @],
             raised |-> FALSE, user_id |-> id]

\* Most rows the glucose_readings table holds.
MaxReadings == 2

\* datetime.utcnow() at the time of the calls: 02:00 UTC on day 2.
UtcNow == 3000

\* UTC offsets of the zone the process runs in, in minutes.
UtcOffsets == {-60, 0, 60}

\* Instants of readings (epoch time, in minutes): 25 hours, 23.5 hours
\* and half an hour before UtcNow.
DbDates == {UtcNow - 1500, UtcNow - 1410, UtcNow - 30}

DbValues == {65, 250}

\* Windows asked of get_user_readings.
HoursArgs == {1, 24}

\* DatabaseManager.save_glucose_reading: the row is added; a failing commit
\* is rolled back and raised.  date is the instant the reading was taken at,
\* which the row does not hold.
save_glucose_reading(tbl, user_id, glucose_value, timestamp, source, date, commit) ==
    IF commit = "raise" THEN [readings |-> tbl, raised |-> TRUE]
    ELSE [readings |-> Append(tbl, [user_id |-> user_id, glucose_value |-> glucose_value,
                                    timestamp |-> timestamp, source |-> source,
                                    date |-> date]),
          raised |-> FALSE]

\* Lines 71-75: the ids of the rows of the user whose timestamp is not before
\* utcnow - hours.
rows_since(tbl, user_id, hours, utcnow) ==
    LET since == utcnow - 60 * hours
    IN  {i \in DOMAIN tbl : tbl[i].user_id = user_id /\ tbl[i].timestamp >= since}

\* order_by(timestamp.desc()): every order of the ids with no timestamp
\* before a later one.
ordered_desc(tbl, ids) ==
    {s \in [1..Cardinality(ids) -> ids] :
        /\ \A i, j \in DOMAIN s : i # j => s[i] # s[j]
        /\ \A i, j \in DOMAIN s : i < j => tbl[s[i]].timestamp >= tbl[s[j]].timestamp}

\* Line 326: a row that could not be saved is passed over; nothing is
\* written to the log of the batch.
skip_failed_row(log, row) == log

RECURSIVE store_rows(_, _, _, _, _, _)
\* Lines 316-326: the rows of the frame saved one after the other; failing
\* holds the positions whose save raises.
store_rows(tbl, user_id, rows, failing, offset, log) ==
    IF rows = << >> THEN [readings |-> tbl, log |-> log]
    ELSE
        LET row == Head(rows)
            r == save_glucose_reading(tbl, user_id, row.sgv,
                                      fromtimestamp(row.date, offset), "nightscout",
                                      row.date,
                                      IF row.position \in failing THEN "raise" ELSE "ok")
        IN  store_rows(r.readings, user_id, Tail(rows), failing, offset,
                       IF r.raised THEN skip_failed_row(log, row) ELSE log)

\* Frames of a fetched history: rows with their position, sgv and date, the
\* entries of one frame taken at different instants.
HistoryFrames ==
    {<< >>} \cup
    {<<[position |-> 1, sgv |-> v, date |-> d]>> : v \in DbValues, d \in DbDates} \cup
    {<<[position |-> 1, sgv |-> 65, date |-> p[1]], [position |-> 2, sgv |-> 250, date |-> p[2]]>> :
        p \in {q \in DbDates \X DbDates : q[1] # q[2]}}

\* No DatabaseManager call made yet.
NoDbCall == [op |-> "none"]

\* Nothing passed for any email yet.
NeverPassed == [e \in DbEmails |-> [seen |-> FALSE, phone_number |-> None, user_id |-> 0]]

-----------------------------------------------------------------------------
(* State shared by the specifications *)

NoCall ==
    [op |-> "none", to_number |-> None, to_email |-> None, alert_type |-> "high",
     glucose_value |-> 0, timestamp |-> NoTimestamp,
     success |-> FALSE, raised |-> FALSE, sms_attempts |-> 0, sms_delivered |-> FALSE,
     sms_messages |-> {}, email_attempts |-> 0, email_delivered |-> FALSE,
     email_messages |-> {}, log |-> {}]

\* What one channel did in a call, as the caller of the channel saw it.
ChannelOutcome(destination, attempts, delivered) ==
    IF ~Truthy(destination) THEN "no_destination"
    ELSE IF attempts = 0 THEN "skipped"
    ELSE IF delivered THEN "sent" ELSE "failed"

Summary(c) ==
    [op |-> c.op, success |-> c.success,
     sms |-> ChannelOutcome(c.to_number, c.sms_attempts, c.sms_delivered),
     email |-> ChannelOutcome(c.to_email, c.email_attempts, c.email_delivered)]

CallRecord(r, to_number, glucose_value, timestamp, alert_type, to_email) ==
    [op |-> "send_glucose_alert", to_number |-> to_number, to_email |-> to_email,
     alert_type |-> alert_type, glucose_value |-> glucose_value, timestamp |-> timestamp,
     success |-> r.success, raised |-> r.raised,
     sms_attempts |-> r.sms_attempts, sms_delivered |-> r.sms_delivered,
     sms_messages |-> r.sms_messages,
     email_attempts |-> r.email_attempts, email_delivered |-> r.email_delivered,
     email_messages |-> r.email_messages, log |-> r.log]

SetCls(c) ==
    /\ client' = c.client
    /\ from_number' = c.from_number
    /\ email_password' = c.email_password

NothingShown == [warning |-> None, metrics |-> {}]

InitStatsVars ==
    /\ df = << >>
    /\ stats = << >>
    /\ shown = NothingShown
    /\ spc = "input"
    /\ processed = << >>

InitAlertVars ==
    /\ client = None
    /\ from_number = None
    /\ email_password = None
    /\ last = NoCall
    /\ prev = Summary(NoCall)

\* No NightscoutAPI object in use: one for the empty URL, nothing called.
InitApiVars ==
    /\ api = NightscoutAPI("")
    /\ fetch = NoFetch

\* Empty tables, a process running in UTC, no call made.
InitDbVars ==
    /\ tz = 0
    /\ users = << >>
    /\ readings = << >>
    /\ dbcall = NoDbCall
    /\ passed = NeverPassed

\* A run of main() that has not started.
FreshRun ==
    /\ pc' = "start"
    /\ user_email' = ""
    /\ nightscout_url' = ""
    /\ current_glucose' = NoReading
    /\ advice' = "none"
    /\ status_message' = None
    /\ notice' = None
    /\ error' = None
    /\ trace' = {}

\* The locals of main() before the first run.
InitRunVars ==
    /\ pc = "start"
    /\ user_email = ""
    /\ nightscout_url = ""
    /\ current_glucose = NoReading
    /\ advice = "none"
    /\ status_message = None
    /\ notice = None
    /\ error = None
    /\ prev_sgv = 0
    /\ trace = {}

\* initialize_session_state on an empty session, before the first run.
InitAppVars ==
    /\ ss_phone_number = None
    /\ enable_alerts = FALSE
    /\ high_threshold = DefaultHigh
    /\ low_threshold = DefaultLow
    /\ InitRunVars

-----------------------------------------------------------------------------
(* The AlertManager interface called directly, in any order, with any         *)
(* arguments: the class methods are public and keep their state on the class. *)

InitAlert ==
    /\ environ \in Environments
    /\ client = None
    /\ from_number = None
    /\ email_password = None
    /\ last = NoCall
    /\ prev = Summary(NoCall)
    /\ InitStatsVars
    /\ InitAppVars
    /\ InitApiVars
    /\ InitDbVars

CallCanSendAlerts ==
    LET r == can_send_alerts(Cls, environ)
    IN  /\ SetCls(r.cls)
        /\ last' = [NoCall EXCEPT !.op = "can_send_alerts", !.success = r.result]
        /\ prev' = Summary(last)
        /\ UNCHANGED <<environ, statsVars, appVars, apiVars, dbVars>>

CallSendGlucoseAlert ==
    \E to_number \in PhoneArgs, glucose_value \in AlertValues,
       timestamp \in TimestampArgs, alert_type \in AlertTypes, to_email \in EmailArgs,
       now \in NowValues, twilio \in ProviderOutcomes, smtp \in ProviderOutcomes :
        LET r == send_glucose_alert(Cls, environ, to_number, glucose_value, timestamp,
                                    alert_type, to_email, now, twilio, smtp)
        IN  /\ SetCls(r.cls)
            /\ last' = CallRecord(r, to_number, glucose_value, timestamp, alert_type,
                                  to_email)
            /\ prev' = Summary(last)
            /\ UNCHANGED <<environ, statsVars, appVars, apiVars, dbVars>>

NextAlert ==
    \/ CallCanSendAlerts
    \/ CallSendGlucoseAlert

SpecAlert == InitAlert /\ [][NextAlert]_vars

-----------------------------------------------------------------------------
(* A caller of DataProcessor: series drawn from Series, the snapshot         *)
(* computed and displayed.                                                 *)

\* A caller has the series processed ...
Process ==
    /\ spc = "input"
    /\ processed' = process_glucose_data(df)
    /\ spc' = "processed"
    /\ UNCHANGED <<df, stats, shown>>

\* ... computes the snapshot of the series, processed or not ...
Calculate ==
    /\ spc \in {"input", "processed"}
    /\ stats' = calculate_statistics(IF spc = "processed" THEN sgv_column(processed) ELSE df)
    /\ spc' = "computed"
    /\ UNCHANGED <<df, shown, processed>>

\* ... and hands it to the display.
Display ==
    /\ spc = "computed"
    /\ shown' = display_statistics(stats)
    /\ spc' = "displayed"
    /\ UNCHANGED <<df, stats, processed>>

\* The next series.
NewSeries ==
    /\ spc = "displayed"
    /\ df' \in Series \cup LongSeries
    /\ stats' = << >>
    /\ shown' = NothingShown
    /\ processed' = << >>
    /\ spc' = "input"

\* The series is any of those drawn; the session holds any thresholds the
\* two number inputs can give.
InitStats ==
    /\ df \in Series \cup LongSeries
    /\ stats = << >>
    /\ shown = NothingShown
    /\ spc = "input"
    /\ processed = << >>
    /\ environ = [TWILIO_ACCOUNT_SID |-> None, TWILIO_AUTH_TOKEN |-> None,
                  TWILIO_PHONE_NUMBER |-> None, EMAIL_PASSWORD |-> None]
    /\ InitAlertVars
    /\ ss_phone_number = None
    /\ enable_alerts = FALSE
    /\ low_threshold \in LowThresholdInputs
    /\ high_threshold \in HighThresholdInputs
    /\ InitRunVars
    /\ InitApiVars
    /\ InitDbVars

NextStats ==
    \/ Process /\ UNCHANGED <<alertVars, appVars, apiVars, dbVars>>
    \/ Calculate /\ UNCHANGED <<alertVars, appVars, apiVars, dbVars>>
    \/ Display /\ UNCHANGED <<alertVars, appVars, apiVars, dbVars>>
    \/ NewSeries /\ UNCHANGED <<alertVars, appVars, apiVars, dbVars>>

SpecStats == InitStats /\ [][NextStats]_vars

-----------------------------------------------------------------------------
(* A caller of NightscoutAPI: objects constructed for any URL, the two       *)
(* methods called on them; the loop of _generate_sample_data runs one row    *)
(* at a time.                                                                *)

InitApi ==
    /\ \E url \in ApiUrls : api = NightscoutAPI(url)
    /\ fetch = NoFetch
    /\ environ = [TWILIO_ACCOUNT_SID |-> None, TWILIO_AUTH_TOKEN |-> None,
                  TWILIO_PHONE_NUMBER |-> None, EMAIL_PASSWORD |-> None]
    /\ InitAlertVars
    /\ InitStatsVars
    /\ InitAppVars
    /\ InitDbVars

\* NightscoutAPI(url)
Construct ==
    /\ ~fetch.running
    /\ \E url \in ApiUrls : api' = NightscoutAPI(url)
    /\ fetch' = NoFetch

\* api.get_current_glucose()
GetCurrentGlucose ==
    /\ ~fetch.running
    /\ \E remote \in RemoteOutcomes, entry_sgv \in GlucoseValues, sample \in SampleSgv :
        fetch' = get_current_glucose(api, remote, entry_sgv, sample)
    /\ UNCHANGED api

\* api.get_glucose_data(hours)
GetGlucoseData ==
    /\ ~fetch.running
    /\ \E hours \in 1..MaxHours, remote \in RemoteOutcomes, entry_sgv \in GlucoseValues :
        fetch' = get_glucose_data(api, hours, remote, entry_sgv)
    /\ UNCHANGED api

\* One pass of the loop at lines 60-72.
GenerateRow ==
    /\ fetch.running
    /\ fetch.rows < sample_count(fetch.hours)
    /\ \E step \in RandomSteps :
        LET r == next_sample(fetch.base_glucose, step)
        IN  fetch' = [fetch EXCEPT !.rows = @ + 1, !.base_glucose = r.base_glucose,
                                   !.sgv = r.sgv]
    /\ UNCHANGED api

\* Line 74: the loop is over and the frame is returned.
ReturnData ==
    /\ fetch.running
    /\ fetch.rows = sample_count(fetch.hours)
    /\ fetch' = [fetch EXCEPT !.running = FALSE]
    /\ UNCHANGED api

NextApi ==
    \/ Construct /\ UNCHANGED <<alertVars, statsVars, appVars, dbVars>>
    \/ GetCurrentGlucose /\ UNCHANGED <<alertVars, statsVars, appVars, dbVars>>
    \/ GetGlucoseData /\ UNCHANGED <<alertVars, statsVars, appVars, dbVars>>
    \/ GenerateRow /\ UNCHANGED <<alertVars, statsVars, appVars, dbVars>>
    \/ ReturnData /\ UNCHANGED <<alertVars, statsVars, appVars, dbVars>>

SpecApi == InitApi /\ [][NextApi]_vars

-----------------------------------------------------------------------------
(* Callers of DatabaseManager.get_or_create_user, with any arguments.        *)

InitUsers ==
    /\ tz = 0
    /\ users = << >>
    /\ readings = << >>
    /\ dbcall = NoDbCall
    /\ passed = NeverPassed
    /\ environ = [TWILIO_ACCOUNT_SID |-> None, TWILIO_AUTH_TOKEN |-> None,
                  TWILIO_PHONE_NUMBER |-> None, EMAIL_PASSWORD |-> None]
    /\ InitAlertVars
    /\ InitStatsVars
    /\ InitAppVars
    /\ InitApiVars

\* get_or_create_user(db, email, nightscout_url, phone_number); passed keeps,
\* for a call that returned, the account it returned first and the last
\* non-empty phone number handed in.
CallGetOrCreateUser ==
    \E email \in DbEmails, url \in DbUrls, phone_number \in DbPhones,
       commit \in CommitOutcomes :
        LET r == get_or_create_user(users, email, url, phone_number, commit)
        IN  /\ users' = r.users
            /\ dbcall' = [op |-> "get_or_create_user", email |-> email,
                          phone_number |-> phone_number, raised |-> r.raised,
                          user_id |-> r.user_id, created |-> Len(r.users) > Len(users)]
            /\ passed' = IF r.raised THEN passed
                         ELSE [passed EXCEPT ![email] =
                                 [seen |-> TRUE,
                                  phone_number |-> IF Truthy(phone_number)
                                                   THEN phone_number ELSE @.phone_number,
                                  user_id |-> IF @.seen THEN @.user_id ELSE r.user_id]]
            /\ UNCHANGED <<tz, readings>>

NextUsers ==
    \/ CallGetOrCreateUser /\ UNCHANGED <<alertVars, statsVars, appVars, apiVars>>

SpecUsers == InitUsers /\ [][NextUsers]_vars

-----------------------------------------------------------------------------
(* Callers of save_glucose_reading and get_user_readings for two accounts,   *)
(* in a process whose zone is any of UtcOffsets.                             *)

TwoUsers ==
    <<[email |-> "a@example.com", nightscout_url |-> Placeholder, phone_number |-> None],
      [email |-> "b@example.com", nightscout_url |-> Placeholder, phone_number |-> None]>>

InitReadings ==
    /\ tz \in UtcOffsets
    /\ users = TwoUsers
    /\ readings = << >>
    /\ dbcall = NoDbCall
    /\ passed = NeverPassed
    /\ environ = [TWILIO_ACCOUNT_SID |-> None, TWILIO_AUTH_TOKEN |-> None,
                  TWILIO_PHONE_NUMBER |-> None, EMAIL_PASSWORD |-> None]
    /\ InitAlertVars
    /\ InitStatsVars
    /\ InitAppVars
    /\ InitApiVars

\* app.py lines 201-212: the current reading is saved with the local time of
\* its date; a failure is caught and warned about.
SaveCurrentReading ==
    /\ Len(readings) < MaxReadings
    /\ \E user_id \in DOMAIN users, sgv \in DbValues, date \in DbDates,
          commit \in CommitOutcomes :
        LET r == save_glucose_reading(readings, user_id, sgv, fromtimestamp(date, tz),
                                      "nightscout", date, commit)
        IN  /\ readings' = r.readings
            /\ dbcall' = [op |-> "save_glucose_reading", user_id |-> user_id,
                          raised |-> r.raised]
    /\ UNCHANGED <<tz, users, passed>>

\* manual_entry.py lines 90-106: a manual entry is saved with the date and
\* time typed into the form, the local time of the instant it was taken at.
SaveManualEntry ==
    /\ Len(readings) < MaxReadings
    /\ \E user_id \in DOMAIN users, glucose_value \in DbValues, date \in DbDates,
          commit \in CommitOutcomes :
        LET entry_datetime == date + tz
            r == save_glucose_reading(readings, user_id, glucose_value, entry_datetime,
                                      "manual", date, commit)
        IN  /\ readings' = r.readings
            /\ dbcall' = [op |-> "save_glucose_reading", user_id |-> user_id,
                          raised |-> r.raised]
    /\ UNCHANGED <<tz, users, passed>>

\* app.py lines 314-335: the rows of a non-empty frame are saved one after
\* the other, then the frame is processed and summarised.  failing and
\* failures are the saves that raised; log is what the loop wrote about them.
IngestHistory ==
    \E user_id \in DOMAIN users, frame \in HistoryFrames :
      \E failing \in SUBSET (DOMAIN frame) :
        /\ frame # << >>
        /\ Len(readings) + Len(frame) <= MaxReadings
        /\ LET r == store_rows(readings, user_id, frame, failing, tz, << >>)
               statistics == calculate_statistics(
                                 sgv_column(process_glucose_data(sgv_column(frame))))
           IN  /\ readings' = r.readings
               /\ dbcall' = [op |-> "ingest", user_id |-> user_id, frame |-> frame,
                             failing |-> failing,
                             first_id |-> Len(readings) + 1,
                             processed |-> TRUE, stats |-> statistics, log |-> r.log]
        /\ UNCHANGED <<tz, users, passed>>

\* get_user_readings(db, user_id, hours)
ListReadings ==
    \E user_id \in DOMAIN users, hours \in HoursArgs :
        /\ \E rows \in ordered_desc(readings, rows_since(readings, user_id, hours, UtcNow)) :
              dbcall' = [op |-> "get_user_readings", user_id |-> user_id,
                         hours |-> hours, rows |-> rows]
        /\ UNCHANGED <<tz, users, readings, passed>>

NextReadings ==
    \/ SaveCurrentReading /\ UNCHANGED <<alertVars, statsVars, appVars, apiVars>>
    \/ SaveManualEntry /\ UNCHANGED <<alertVars, statsVars, appVars, apiVars>>
    \/ IngestHistory /\ UNCHANGED <<alertVars, statsVars, appVars, apiVars>>
    \/ ListReadings /\ UNCHANGED <<alertVars, statsVars, appVars, apiVars>>

SpecReadings == InitReadings /\ [][NextReadings]_vars

-----------------------------------------------------------------------------
(* app.py: main(), one run after another in one browser session.  The     *)
(* persistence calls are followed for their outcome only (they raise or   *)
(* not); the stored rows are not part of this state.                      *)

\* Longest history drawn in a run.
HistoryLen == 1

\* The histories drawn hold one value inside and one outside 70..180.
HistorySeries ==
    {s \in AllSeries(HistoryLen) : \A i \in DOMAIN s : s[i] \in {70, 181}}

\* Initial environments of the dashboard process: Twilio configured or not,
\* the email password set or not.  "Save Twilio Settings" adds the others.
AppEnvironments ==
    {e \in Environments :
        /\ e.TWILIO_ACCOUNT_SID \in {None, "set"}
        /\ e.TWILIO_AUTH_TOKEN = e.TWILIO_ACCOUNT_SID
        /\ e.TWILIO_PHONE_NUMBER = e.TWILIO_ACCOUNT_SID
        /\ e.EMAIL_PASSWORD \in {None, "set"}}

\* Lines 78-145: what the sidebar makes of the phone field, the checkbox and
\* the two threshold fields, given the session so far.
sidebar(phone_in, checkbox, low_in, high_in) ==
    LET phone == stored_phone(phone_in, ss_phone_number)
        settings == Truthy(phone)
        enabled == IF settings THEN checkbox ELSE enable_alerts
        edit == settings /\ enabled
        can == IF edit THEN can_send_alerts(Cls, environ)
               ELSE [cls |-> Cls, result |-> TRUE]
    IN  [phone |-> phone, enabled |-> enabled,
         low |-> IF edit THEN low_in ELSE low_threshold,
         high |-> IF edit THEN high_in ELSE high_threshold,
         cls |-> can.cls, twilio_form |-> edit /\ ~can.result]

SetSession(sb) ==
    /\ ss_phone_number' = sb.phone
    /\ enable_alerts' = sb.enabled
    /\ low_threshold' = sb.low
    /\ high_threshold' = sb.high
    /\ SetCls(sb.cls)

\* Lines 69-76: an email that fails validate_email ends the run at once.
SidebarInvalidEmail ==
    /\ pc = "start"
    /\ \E email_in \in EmailInputs :
        /\ email_in # "" /\ ~validate_email(email_in)
        /\ user_email' = email_in
        /\ error' = "Please enter a valid email address"
        /\ pc' = "done"
    /\ UNCHANGED <<alertVars, statsVars, sessionVars, nightscout_url,
                   current_glucose, advice, status_message, notice, prev_sgv, trace>>

\* Lines 69-176: the sidebar with a usable (or empty) email; the run goes on
\* to the pipeline when both the email and the URL are given.
Sidebar ==
    /\ pc = "start"
    /\ \E email_in \in EmailInputs, phone_in \in PhoneInputs, url_in \in UrlInputs,
          checkbox \in BOOLEAN,
          low_in \in LowThresholdInputs, high_in \in HighThresholdInputs :
        /\ email_in = "" \/ validate_email(email_in)
        /\ SetSession(sidebar(phone_in, checkbox, low_in, high_in))
        /\ user_email' = email_in
        /\ nightscout_url' = url_in
        /\ pc' = IF Truthy(email_in) /\ Truthy(url_in) THEN "get_user" ELSE "done"
    /\ UNCHANGED <<environ, last, prev, statsVars,
                   current_glucose, advice, status_message, notice, error, prev_sgv, trace>>

\* Lines 145-164: with alerts enabled and can_send_alerts() false, "Save Twilio
\* Settings" writes the three form fields to os.environ and reruns the script.
SidebarSaveTwilio ==
    /\ pc = "start"
    /\ \E email_in \in EmailInputs, phone_in \in PhoneInputs, checkbox \in BOOLEAN,
          low_in \in LowThresholdInputs, high_in \in HighThresholdInputs,
          sid \in {"", "set"}, token \in {"", "set"}, number \in {"", "set"} :
        LET sb == sidebar(phone_in, checkbox, low_in, high_in)
        IN  /\ email_in = "" \/ validate_email(email_in)
            /\ sb.twilio_form
            /\ SetSession(sb)
            /\ environ' = [environ EXCEPT !.TWILIO_ACCOUNT_SID = sid,
                                          !.TWILIO_AUTH_TOKEN = token,
                                          !.TWILIO_PHONE_NUMBER = number]
    /\ FreshRun
    /\ prev_sgv' = 0
    /\ UNCHANGED <<last, prev, statsVars>>

\* An except clause of main() that shows the error and lets the run go on
\* with the step after the one that failed.
main_except_resume(message, next_step) ==
    [pc |-> next_step, error |-> message]

\* Lines 344-346: any exception raised inside the try block of main() ends
\* the run there; st.error shows its message.
main_except(message, next_step) ==
    [pc |-> "done", error |-> message]

\* Lines 178-193: get_or_create_user returns the account or raises.
GetUser ==
    /\ pc = "get_user"
    /\ \E db_ok \in BOOLEAN :
        IF db_ok THEN pc' = "fetch_current" /\ UNCHANGED error
        ELSE LET h == main_except("Database error", "fetch_current")
             IN  pc' = h.pc /\ error' = h.error
    /\ UNCHANGED <<alertVars, statsVars, sessionVars, user_email, nightscout_url,
                   current_glucose, advice, status_message, notice, prev_sgv, trace>>

\* NightscoutAPI.__init__: dev_mode is set when the URL is the placeholder.
api_dev_mode(url) == NightscoutAPI(url).dev_mode

\* Lines 195-212: get_current_glucose gives a synthetic reading in dev mode,
\* else the newest entry, nothing, or raises; a reading that is there is then
\* stored (a failure to store is caught and only warned about).
FetchCurrent ==
    /\ pc = "fetch_current"
    /\ \/ /\ api_dev_mode(nightscout_url)
          /\ \E v \in DevSampleValues : current_glucose' = Reading(v)
          /\ trace' = trace \cup {"fetch_current", "save_current"}
          /\ pc' = "display" /\ UNCHANGED error
       \/ /\ ~api_dev_mode(nightscout_url)
          /\ \E v \in GlucoseValues : current_glucose' = Reading(v)
          /\ trace' = trace \cup {"fetch_current", "save_current"}
          /\ pc' = "display" /\ UNCHANGED error
       \/ /\ ~api_dev_mode(nightscout_url)
          /\ current_glucose' = NoReading
          /\ trace' = trace \cup {"fetch_current"}
          /\ pc' = "display" /\ UNCHANGED error
       \/ /\ ~api_dev_mode(nightscout_url)
          /\ LET h == main_except("Failed to fetch current glucose", "display")
             IN  pc' = h.pc /\ error' = h.error
          /\ trace' = trace \cup {"fetch_current_failed"}
          /\ UNCHANGED current_glucose
    /\ UNCHANGED <<alertVars, statsVars, sessionVars, user_email, nightscout_url,
                   advice, status_message, notice, prev_sgv>>

\* Lines 217-271: the current reading is displayed and the advice panel chosen.
ShowCurrent ==
    /\ pc = "display"
    /\ status_message' = display_current_glucose(current_glucose)
    /\ advice' = advice_for(glucose_value_of(current_glucose),
                            low_threshold, high_threshold)
    /\ trace' = trace \cup {"display"}
    /\ pc' = "alerts"
    /\ UNCHANGED <<alertVars, statsVars, sessionVars, user_email, nightscout_url,
                   current_glucose, notice, error, prev_sgv>>

\* Lines 273-310: the gate, can_send_alerts(), and the dispatch of a high or
\* low alert to the stored phone number and the typed email.  The result of
\* send_glucose_alert is not looked at; an exception leaving it would reach
\* the except clause of main().
CheckAlerts ==
    /\ pc = "alerts"
    /\ LET gate == alerts_gate(enable_alerts, ss_phone_number, user_email, current_glucose)
           can == IF gate THEN can_send_alerts(Cls, environ)
                  ELSE [cls |-> Cls, result |-> FALSE]
           type == IF gate /\ can.result
                   THEN alert_type_for(sgv_of(current_glucose), low_threshold, high_threshold)
                   ELSE "none"
           phone == IF Truthy(ss_phone_number) THEN ss_phone_number ELSE None
           email == IF Truthy(user_email) THEN user_email ELSE None
       IN  IF type = "none" THEN
               /\ SetCls(can.cls)
               /\ pc' = "fetch_history"
               /\ UNCHANGED <<last, notice, error>>
           ELSE
               \E now \in NowValues, twilio \in ProviderOutcomes, smtp \in ProviderOutcomes :
                   LET glucose_value == sgv_of(current_glucose)
                       timestamp == Timestamp(fromtimestamp(date_of(current_glucose), tz))
                       r == send_glucose_alert(can.cls, environ, phone, glucose_value,
                                               timestamp, type, email, now, twilio, smtp)
                       h == main_except("Alert error", "fetch_history")
                   IN  /\ SetCls(r.cls)
                       /\ last' = CallRecord(r, phone, glucose_value, timestamp, type, email)
                       /\ IF r.raised
                          THEN pc' = h.pc /\ error' = h.error /\ UNCHANGED notice
                          ELSE pc' = "fetch_history" /\ notice' = type /\ UNCHANGED error
    /\ trace' = trace \cup {"alerts"}
    /\ UNCHANGED <<environ, prev, statsVars, sessionVars, user_email, nightscout_url,
                   current_glucose, advice, status_message, prev_sgv>>

\* Lines 312-313: get_glucose_data gives the history, or raises when the
\* request to a real endpoint fails.
FetchHistory ==
    /\ pc = "fetch_history"
    /\ \/ /\ df' \in HistorySeries
          /\ trace' = trace \cup {"fetch_history"}
          /\ pc' = "process" /\ UNCHANGED error
       \/ /\ ~api_dev_mode(nightscout_url)
          /\ LET h == main_except("Failed to fetch data from Nightscout", "process")
             IN  pc' = h.pc /\ error' = h.error
          /\ trace' = trace \cup {"fetch_history_failed"}
          /\ UNCHANGED df
    /\ UNCHANGED <<alertVars, stats, shown, spc, processed, sessionVars, user_email,
                   nightscout_url, current_glucose, advice, status_message, notice, prev_sgv>>

\* Lines 314-338: a non-empty history is stored row by row, processed,
\* summarised and displayed.
ProcessHistory ==
    /\ pc = "process"
    /\ IF df # << >>
       THEN LET processed_df == process_glucose_data(df)
                statistics == calculate_statistics(sgv_column(processed_df))
            IN  /\ processed' = processed_df
                /\ stats' = statistics
                /\ shown' = display_statistics(statistics)
                /\ trace' = trace \cup {"store_history", "process", "statistics"}
       ELSE UNCHANGED <<stats, shown, processed, trace>>
    /\ pc' = "manual_entry"
    /\ UNCHANGED <<alertVars, df, spc, sessionVars, user_email, nightscout_url,
                   current_glucose, advice, status_message, notice, error, prev_sgv>>

\* Lines 340-346: the manual entry form; a failure to list the readings is
\* reported by the handler of main().
ManualEntry ==
    /\ pc = "manual_entry"
    /\ \E db_ok \in BOOLEAN :
        IF db_ok THEN UNCHANGED error
        ELSE error' = main_except("Failed to fetch glucose readings", "done").error
    /\ trace' = trace \cup {"manual_entry"}
    /\ pc' = "done"
    /\ UNCHANGED <<alertVars, statsVars, sessionVars, user_email, nightscout_url,
                   current_glucose, advice, status_message, notice, prev_sgv>>

\* The script is run again (a widget changed, or the page was reloaded).
Rerun ==
    /\ pc = "done"
    /\ FreshRun
    /\ prev_sgv' = IF last.op = "send_glucose_alert" THEN sgv_of(current_glucose) ELSE 0
    /\ last' = NoCall
    /\ df' = << >>
    /\ stats' = << >>
    /\ shown' = NothingShown
    /\ processed' = << >>
    /\ UNCHANGED <<environ, client, from_number, email_password, prev, spc, sessionVars>>

Init ==
    /\ environ \in AppEnvironments
    /\ InitAlertVars
    /\ InitStatsVars
    /\ InitAppVars
    /\ InitApiVars
    /\ InitDbVars

Next ==
    \/ SidebarInvalidEmail /\ UNCHANGED <<apiVars, dbVars>>
    \/ Sidebar /\ UNCHANGED <<apiVars, dbVars>>
    \/ SidebarSaveTwilio /\ UNCHANGED <<apiVars, dbVars>>
    \/ GetUser /\ UNCHANGED <<apiVars, dbVars>>
    \/ FetchCurrent /\ UNCHANGED <<apiVars, dbVars>>
    \/ ShowCurrent /\ UNCHANGED <<apiVars, dbVars>>
    \/ CheckAlerts /\ UNCHANGED <<apiVars, dbVars>>
    \/ FetchHistory /\ UNCHANGED <<apiVars, dbVars>>
    \/ ProcessHistory /\ UNCHANGED <<apiVars, dbVars>>
    \/ ManualEntry /\ UNCHANGED <<apiVars, dbVars>>
    \/ Rerun /\ UNCHANGED <<apiVars, dbVars>>

Spec == Init /\ [][Next]_vars

\* Values "Save Twilio Settings" writes for one variable: the text of a form
\* field, empty or not.
TwilioFieldValues == {"", "set"}

-----------------------------------------------------------------------------
(* Two browser sessions served by one process: the session followed above   *)
(* and another user's, whose runs of main() reach AlertManager and           *)
(* os.environ, which belong to the process and not to a session.             *)

\* A run of the other session with a phone number stored and alerts enabled:
\* line 145 calls can_send_alerts() on the class.
OtherRun ==
    /\ SetCls(can_send_alerts(Cls, environ).cls)
    /\ UNCHANGED <<environ, last, prev>>

\* A run of the other session in which can_send_alerts() is false, the form
\* is shown and "Save Twilio Settings" is pressed (lines 145-164).
OtherSaveTwilio ==
    LET r == can_send_alerts(Cls, environ)
    IN  /\ ~r.result
        /\ SetCls(r.cls)
        /\ \E sid \in TwilioFieldValues, token \in TwilioFieldValues,
              number \in TwilioFieldValues :
            environ' = [environ EXCEPT !.TWILIO_ACCOUNT_SID = sid,
                                       !.TWILIO_AUTH_TOKEN = token,
                                       !.TWILIO_PHONE_NUMBER = number]
        /\ UNCHANGED <<last, prev>>

NextSessions ==
    \/ Next
    \/ OtherRun /\ UNCHANGED <<statsVars, appVars, apiVars, dbVars>>
    \/ OtherSaveTwilio /\ UNCHANGED <<statsVars, appVars, apiVars, dbVars>>

SpecSessions == Init /\ [][NextSessions]_vars

-----------------------------------------------------------------------------
(* The AlertManager interface in a process whose environment is written to  *)
(* between the calls, as "Save Twilio Settings" does.                        *)

InitEnv ==
    /\ environ \in AppEnvironments
    /\ InitAlertVars
    /\ InitStatsVars
    /\ InitAppVars
    /\ InitApiVars
    /\ InitDbVars

\* app.py lines 158-160: the three Twilio variables are assigned in
\* os.environ; the class attributes are not touched.
WriteEnviron ==
    /\ \E sid \in TwilioFieldValues, token \in TwilioFieldValues,
          number \in TwilioFieldValues :
        environ' = [environ EXCEPT !.TWILIO_ACCOUNT_SID = sid,
                                   !.TWILIO_AUTH_TOKEN = token,
                                   !.TWILIO_PHONE_NUMBER = number]
    /\ last' = [NoCall EXCEPT !.op = "os.environ"]
    /\ prev' = Summary(last)
    /\ UNCHANGED <<client, from_number, email_password>>

\* send_glucose_alert called for a high reading of 250 mg/dL with no
\* timestamp, to any destinations.
CallSendHighAlert ==
    \E to_number \in PhoneArgs, to_email \in EmailArgs, now \in NowValues,
       twilio \in ProviderOutcomes, smtp \in ProviderOutcomes :
        LET r == send_glucose_alert(Cls, environ, to_number, 250, NoTimestamp, "high",
                                    to_email, now, twilio, smtp)
        IN  /\ SetCls(r.cls)
            /\ last' = CallRecord(r, to_number, 250, NoTimestamp, "high", to_email)
            /\ prev' = Summary(last)
            /\ UNCHANGED environ

NextEnv ==
    \/ WriteEnviron /\ UNCHANGED <<statsVars, appVars, apiVars, dbVars>>
    \/ CallCanSendAlerts
    \/ CallSendHighAlert /\ UNCHANGED <<statsVars, appVars, apiVars, dbVars>>

SpecEnv == InitEnv /\ [][NextEnv]_vars

-----------------------------------------------------------------------------
(* Claims about the dispatcher, checked under SpecAlert *)

SendCall == last.op = "send_glucose_alert"

\* C1: send_glucose_alert returns True if and only if the provider of at least
\* one of the two channels accepted the message in that call.
C1_SuccessIffAChannelDelivered ==
    SendCall => (last.success <=> (last.sms_delivered \/ last.email_delivered))

\* C1's case: SMS attempted and refused, email accepted, overall success; and
\* the reverse in the call before.
C1_Witness ==
    /\ SendCall /\ last.success
    /\ last.sms_attempts = 1 /\ ~last.sms_delivered /\ last.email_delivered
    /\ prev.op = "send_glucose_alert" /\ prev.success
    /\ prev.sms = "sent" /\ prev.email = "failed"

\* C2: in one call each channel that has a destination and whose configuration
\* the class holds is requested exactly once, whatever the other channel did.
C2_EveryConfiguredChannelAttemptedOnce ==
    SendCall =>
        /\ (Truthy(last.to_number) /\ Truthy(client) /\ Truthy(from_number))
              => last.sms_attempts = 1
        /\ (Truthy(last.to_email) /\ Truthy(email_password))
              => last.email_attempts = 1
        /\ last.sms_attempts \in {0, 1} /\ last.email_attempts \in {0, 1}

\* C2's case: the SMS request raised and the email was still requested; in the
\* call before the SMS was accepted and the email was still requested.
C2_Witness ==
    /\ SendCall /\ last.sms_attempts = 1 /\ ~last.sms_delivered
    /\ last.email_attempts = 1
    /\ prev.op = "send_glucose_alert" /\ prev.sms = "sent"
    /\ prev.email \in {"sent", "failed"}

\* C3: the returned result tells a channel skipped for missing configuration
\* from one that was attempted and failed, and tells a failed channel from a
\* successful one even when the overall result is success: two calls with the
\* same result never differ in this.
C3_ResultReportsEachChannel ==
    (SendCall /\ prev.op = "send_glucose_alert" /\ last.success = prev.success) =>
        /\ ~(Summary(last).sms = "skipped" /\ prev.sms = "failed")
        /\ ~(Summary(last).email = "skipped" /\ prev.email = "failed")
        /\ ~(Summary(last).sms = "failed" /\ prev.sms = "sent")
        /\ ~(Summary(last).email = "failed" /\ prev.email = "sent")

\* What the dispatcher prints about a missing configuration or destination.
ConfigurationReasons ==
    {"SMS alerts not configured properly",
     "Email password not configured, cannot send email alerts.",
     "Missing Twilio credentials",
     "No recipient email provided."}

NoChannelConfigured ==
    /\ ~(Truthy(client) /\ Truthy(from_number))
    /\ ~Truthy(email_password)

NoDestination == ~Truthy(last.to_number) /\ ~Truthy(last.to_email)

\* C4: a dispatch with no channel configured, or with no destination for any
\* channel, fails and gives a configuration reason for the failure.
C4_ZeroChannelsFailWithReason ==
    (SendCall /\ (NoChannelConfigured \/ NoDestination)) =>
        /\ ~last.success
        /\ last.log \cap ConfigurationReasons # {}

\* The hour of the day a "%I:%M %p" text stands for.
hour_of(text) ==
    (IF text.hour12 = 12 THEN 0 ELSE text.hour12) + (IF text.ampm = "PM" THEN 12 ELSE 0)

\* The fields carry the value, the time of day of the timestamp handed in (of
\* the clock when none was), and the heading of the alert type.
CarriesValueTimeDirection(fields) ==
    LET t == time_of(last.timestamp, CHOOSE n \in NowValues : TRUE)
    IN  /\ fields.value = last.glucose_value
        /\ hour_of(fields.time) = (t \div 60) % 24
        /\ fields.time.minute = t % 60
        /\ last.alert_type = "high" => fields.heading = "HIGH GLUCOSE ALERT"
        /\ last.alert_type = "low" => fields.heading = "LOW GLUCOSE ALERT"

\* C19: every message send_glucose_alert hands to a channel for a high or low
\* alert carries the glucose value, the time of the reading in readable form
\* and the direction of the alert: the SMS text does, and so do the plain text
\* and the HTML part of the email, next to a subject with the value and the
\* direction.
C19_MessagesCarryValueTimeDirection ==
    (SendCall /\ last.alert_type \in {"high", "low"}) =>
        /\ \A m \in last.sms_messages :
              /\ CarriesValueTimeDirection(m)
              /\ m.target_range = (IF last.alert_type = "high" THEN "above" ELSE "below")
        /\ \A m \in last.email_messages :
              /\ CarriesValueTimeDirection(m.text)
              /\ CarriesValueTimeDirection(m.html)
              /\ m.text.status = upper(last.alert_type)
              /\ m.html.status = upper(last.alert_type)
              /\ m.subject.value = last.glucose_value
              /\ m.subject.heading = m.text.heading

\* C19's case: a low alert for a reading taken at 13:05 handed to both
\* channels.
C19_Witness ==
    /\ SendCall /\ last.alert_type = "low" /\ last.timestamp = Timestamp(2225)
    /\ last.sms_messages # {} /\ last.email_messages # {}
    /\ \A m \in last.sms_messages : m.time = [hour12 |-> 1, minute |-> 5, ampm |-> "PM"]

\* The environment holds a complete SMS configuration or an email password.
EnvConfigured ==
    \/ /\ Truthy(environ.TWILIO_ACCOUNT_SID) /\ Truthy(environ.TWILIO_AUTH_TOKEN)
       /\ Truthy(environ.TWILIO_PHONE_NUMBER)
    \/ Truthy(environ.EMAIL_PASSWORD)

\* C29: a send_glucose_alert call with an email destination requests the
\* email channel whenever EMAIL_PASSWORD is set in the environment, whatever
\* was called before and whether or not an SMS destination is given.
C29_EmailAttemptedWheneverPasswordSet ==
    (SendCall /\ Truthy(last.to_email) /\ Truthy(environ.EMAIL_PASSWORD)) =>
        last.email_attempts = 1

-----------------------------------------------------------------------------
(* Claims about the dispatcher in a changing environment, checked under SpecEnv *)

\* C28: can_send_alerts returns true exactly when the environment, as it is at
\* the time of the call, holds a Twilio SID, token and sender number or holds
\* an email password.
C28_CanSendFollowsEnvironment ==
    last.op = "can_send_alerts" => (last.success <=> EnvConfigured)

-----------------------------------------------------------------------------
(* Claims about the refresh cycle, checked under Spec *)

\* The run has chosen its advice panel (lines 217-271 are behind it).
AdviceChosen == pc \in {"alerts", "fetch_history", "process", "manual_entry"}

\* The run has been through the alert block (lines 273-310 are behind it).
AlertsChecked == pc \in {"fetch_history", "process", "manual_entry"}

Dispatched == last.op = "send_glucose_alert"

\* C5: the value is Low exactly when below the low threshold, High exactly when
\* above the high threshold, and in range otherwise: a value equal to either
\* threshold gets no advice panel and no alert, and an alert that is sent has
\* the type of the side the value is on.
C5_ClassificationIsStrict ==
    LET v == glucose_value_of(current_glucose)
    IN  /\ AdviceChosen =>
              /\ advice = "LOW" <=> v < low_threshold
              /\ advice = "HIGH" <=> v > high_threshold
              /\ advice = "none" <=> (low_threshold <= v /\ v <= high_threshold)
        /\ (AlertsChecked /\ Dispatched) =>
              /\ last.alert_type = "low" <=> v < low_threshold
              /\ last.alert_type = "high" <=> v > high_threshold
              /\ v # low_threshold /\ v # high_threshold

\* C5's case: alerts enabled and deliverable, a reading exactly on a
\* threshold, and the run past the alert block with no panel and no alert.
C5_Witness ==
    /\ AlertsChecked /\ enable_alerts /\ EnvConfigured
    /\ current_glucose # NoReading
    /\ sgv_of(current_glucose) \in {low_threshold, high_threshold}
    /\ advice = "none" /\ ~Dispatched

\* C6: an alert is dispatched in a run only with alerts enabled and a reading
\* below the low or above the high threshold, with the type "low" or "high"
\* accordingly.
C6_DispatchOnlyWhenEnabledAndOutOfRange ==
    Dispatched =>
        /\ enable_alerts
        /\ current_glucose # NoReading
        /\ \/ /\ sgv_of(current_glucose) < low_threshold
              /\ last.alert_type = "low"
           \/ /\ sgv_of(current_glucose) > high_threshold
              /\ last.alert_type = "high"

\* C6's case: a low alert dispatched with alerts enabled.
C6_Witness ==
    /\ Dispatched /\ enable_alerts /\ last.alert_type = "low"
    /\ sgv_of(current_glucose) < low_threshold

\* C7: every run that observes an out-of-range reading with alerts enabled and
\* a channel configured dispatches, and requests every channel that is ready,
\* whether or not the run before dispatched for the same reading.
C7_EveryRunDispatchesAgain ==
    ( /\ AlertsChecked /\ enable_alerts /\ EnvConfigured
      /\ current_glucose # NoReading
      /\ \/ sgv_of(current_glucose) < low_threshold
         \/ sgv_of(current_glucose) > high_threshold )
    => /\ Dispatched
       /\ (Truthy(ss_phone_number) /\ Truthy(client) /\ Truthy(from_number))
             => last.sms_attempts = 1
       /\ Truthy(email_password) => last.email_attempts = 1

\* C7's case: the run before dispatched an alert for this same sgv, and this
\* run dispatched again and made a request to a channel.
C7_Witness ==
    /\ AlertsChecked /\ Dispatched
    /\ prev_sgv = sgv_of(current_glucose)
    /\ last.sms_attempts + last.email_attempts >= 1

\* C8: in every state of the session 40 <= low <= 100, 120 <= high <= 300 and
\* low < high.
C8_ThresholdsWithinBounds ==
    /\ 40 <= low_threshold /\ low_threshold <= 100
    /\ 120 <= high_threshold /\ high_threshold <= 300
    /\ low_threshold < high_threshold

\* C8's case: both thresholds edited away from the defaults, to the two limits
\* that lie closest together.
C8_Witness ==
    /\ pc = "get_user"
    /\ low_threshold = 100 /\ high_threshold = 120

\* C13: when the fetch of the current reading or of the history fails, the
\* run ends there with the error shown by the handler of main(): nothing that
\* comes after the failed fetch is done in that run (no reading saved, no
\* display, no dispatch, no processing, no manual entry form).
C13_FetchFailureEndsTheRun ==
    /\ "fetch_current_failed" \in trace =>
          /\ pc = "done" /\ error = "Failed to fetch current glucose"
          /\ trace = {"fetch_current_failed"}
          /\ ~Dispatched /\ current_glucose = NoReading
          /\ DOMAIN stats = {} /\ processed = << >>
    /\ "fetch_history_failed" \in trace =>
          /\ pc = "done" /\ error = "Failed to fetch data from Nightscout"
          /\ trace \cap {"fetch_history", "store_history", "process", "statistics",
                         "manual_entry"} = {}
          /\ DOMAIN stats = {} /\ processed = << >>

\* C13's case: the history fetch failed in a run that had already dispatched
\* an alert.
C13_Witness ==
    /\ "fetch_history_failed" \in trace /\ Dispatched
    /\ pc = "done" /\ error # None

\* C20: send_glucose_alert raises nothing, and a run whose dispatch delivered
\* nothing still goes on to fetch the history and, when there is one, to
\* store it and compute the statistics.
C20_FailedDispatchDoesNotEndTheRun ==
    Dispatched =>
        /\ ~last.raised
        /\ last.success \in BOOLEAN
        /\ ("alerts" \in trace /\ ~last.success) =>
              /\ pc \in {"fetch_history", "process", "manual_entry", "done"}
              /\ pc \in {"process", "manual_entry"} => "fetch_history" \in trace
              /\ pc = "done" =>
                    ("fetch_history" \in trace \/ "fetch_history_failed" \in trace)
              /\ (pc \in {"manual_entry", "done"} /\ "fetch_history" \in trace /\ df # << >>)
                    => /\ {"store_history", "process", "statistics"} \subseteq trace
                       /\ DOMAIN stats # {}

\* C20's case: the SMS request raised and no email went out, and the run has
\* fetched, stored and summarised the history.
C20_Witness ==
    /\ Dispatched /\ ~last.success
    /\ last.sms_attempts = 1 /\ ~last.sms_delivered
    /\ pc = "manual_entry" /\ "statistics" \in trace /\ DOMAIN stats # {}

\* C21: a run dispatches a notification only after it has fetched, stored
\* and processed the history of that run.
C21_DispatchAfterHistoryProcessed ==
    ("alerts" \in trace /\ Dispatched) =>
        {"fetch_history", "store_history", "process"} \subseteq trace

\* C23: the sidebar notice "High/Low glucose alert sent" is shown in a run only
\* if the dispatch of that run returned success.
C23_NoticeOnlyAfterSuccess ==
    notice # None => (Dispatched /\ last.success)

\* C24: a run in which get_current_glucose returned nothing shows the
\* "unable to fetch" state, shows neither advice panel and dispatches no alert.
C24_AbsentReadingIsNoValue ==
    (AdviceChosen /\ current_glucose = NoReading) =>
        /\ status_message = "Unable to fetch current glucose data"
        /\ advice = "none"
        /\ ~Dispatched

\* C25: the status display_current_glucose shows for a reading agrees with the
\* advice panel and with the alert of the same run: "High Glucose Alert"
\* exactly with the HIGH panel and a high alert, "Low Glucose Alert" exactly
\* with the LOW panel and a low alert.
C25_StatusAgreesWithClassification ==
    (AdviceChosen /\ current_glucose # NoReading) =>
        /\ status_message = "High Glucose Alert" <=> advice = "HIGH"
        /\ status_message = "Low Glucose Alert" <=> advice = "LOW"
        /\ Dispatched =>
              /\ status_message = "High Glucose Alert" <=> last.alert_type = "high"
              /\ status_message = "Low Glucose Alert" <=> last.alert_type = "low"

\* C30: a run whose NightscoutAPI object is in dev mode, and so reads a
\* synthetic current value, never calls send_glucose_alert.
C30_NoDispatchForSyntheticReading ==
    (pc # "start" /\ api_dev_mode(nightscout_url)) => ~Dispatched

-----------------------------------------------------------------------------
(* Claims about concurrent sessions, checked under SpecSessions *)

\* The followed run is between its sidebar and its alert block.
BeforeDispatch == pc \in {"get_user", "fetch_current", "display", "alerts"}

\* C22: while a run is on its way to its alert block, no step of another
\* session changes the channel configuration it will dispatch with: the
\* Twilio client, the sender number and the email password of the class, and
\* the environment they are read from.
C22_OtherSessionsLeaveConfigurationAlone ==
    [][((OtherRun \/ OtherSaveTwilio) /\ BeforeDispatch)
          => UNCHANGED <<environ, client, from_number, email_password>>]_vars

-----------------------------------------------------------------------------
(* Claims about the statistics, checked under SpecStats *)

\* C9: for every non-empty series the snapshot has min <= average <= max and
\* 0 <= in_range <= 100.
C9_MinMeanMaxAndPercentBounds ==
    (spc \in {"computed", "displayed"} /\ Len(df) > 0) =>
        /\ stats.average.den > 0 /\ stats.in_range.den > 0
        /\ stats.min * stats.average.den <= stats.average.num
        /\ stats.average.num <= stats.max * stats.average.den
        /\ 0 <= stats.in_range.num
        /\ stats.in_range.num <= 100 * stats.in_range.den

\* C9's case: a computed snapshot of a series whose first sample is not its
\* largest, with samples inside and outside 70..180.
C9_Witness ==
    /\ spc = "computed" /\ Len(df) >= 2
    /\ df[1] < stats.max /\ stats.min < stats.max
    /\ 0 < stats.in_range.num /\ stats.in_range.num < 100 * stats.in_range.den

\* C10: the snapshot of an empty series has no field at all, and the display
\* then shows the no-data warning and no metric.
C10_EmptySeriesGivesNoData ==
    (spc \in {"computed", "displayed"} /\ Len(df) = 0) =>
        /\ DOMAIN stats = {}
        /\ spc = "displayed" =>
              (shown.warning # None /\ shown.metrics = {})

\* C10's case: an empty series computed and displayed.
C10_Witness ==
    /\ spc = "displayed" /\ Len(df) = 0
    /\ DOMAIN stats = {} /\ shown.warning # None

\* C11: for every non-empty series in_range is 100 times the number of samples
\* v with 70 <= v <= 180, both limits counted, over the number of samples,
\* whatever low and high thresholds the session holds.
C11_InRangeCountsFixedBounds ==
    (spc \in {"computed", "displayed"} /\ Len(df) > 0) =>
        LET inside == {i \in DOMAIN df : 70 <= df[i] /\ df[i] <= 180}
        IN  /\ stats.in_range.num = 100 * Cardinality(inside)
            /\ stats.in_range.den = Len(df)

\* C11's case: thresholds moved to 100 and 120, a series with samples on both
\* fixed limits and one below, and two of the three counted.
C11_Witness ==
    /\ spc = "computed" /\ low_threshold = 100 /\ high_threshold = 120
    /\ df = <<70, 180, 69>>
    /\ stats.in_range = [num |-> 200, den |-> 3]

\* C12: the frame returned by process_glucose_data has the samples of the
\* input in the same order; positions 1..11 carry no rolling mean and no
\* rolling deviation, and every position i from 12 on carries the mean and the
\* deviation of the 12 samples at i-11..i.
C12_RollingWindowOfTwelve ==
    (spc = "processed" /\ Len(df) > 0) =>
        /\ Len(processed) = Len(df)
        /\ \A i \in DOMAIN df :
              LET w == [j \in 1..12 |-> df[i - 12 + j]]
              IN  /\ processed[i].sgv = df[i]
                  /\ i <= 11 =>
                        /\ processed[i].rolling_avg = Missing
                        /\ processed[i].rolling_std = Missing
                  /\ i >= 12 =>
                        /\ processed[i].rolling_avg = {[num |-> series_sum(w), den |-> 12]}
                        /\ processed[i].rolling_std = {series_std(w)}

\* C12's case: a 20-sample series processed, slot 11 empty, slots 12 and 20
\* filled with different means.
C12_Witness ==
    /\ spc = "processed" /\ Len(df) = 20
    /\ processed[11].rolling_avg = Missing
    /\ processed[12].rolling_avg # Missing
    /\ processed[20].rolling_avg # Missing
    /\ processed[12].rolling_avg # processed[20].rolling_avg

\* C26: every field of the snapshot of a non-empty series is a defined
\* number, also for a series of one sample, so that every metric
\* display_statistics formats is one.
C26_EverySnapshotFieldDefined ==
    (spc \in {"computed", "displayed"} /\ Len(df) > 0) =>
        /\ stats.current \in Int /\ stats.max \in Int /\ stats.min \in Int
        /\ stats.average.den > 0
        /\ stats.in_range.den > 0
        /\ stats.std.var_den > 0

-----------------------------------------------------------------------------
(* Claims about the telemetry client, checked under SpecApi *)

\* C17: a synthetic history asked for a window of hours > 0 has exactly
\* 12 x hours rows when it is returned, every row written has its sgv in
\* 60..250, and the synthetic current sample has its sgv in 60..250.
C17_SyntheticCountAndRange ==
    /\ (fetch.op = "get_glucose_data" /\ fetch.synthetic) =>
          /\ fetch.rows <= 12 * fetch.hours
          /\ ~fetch.running => fetch.rows = 12 * fetch.hours
          /\ fetch.rows >= 1 => (60 <= fetch.sgv /\ fetch.sgv <= 250)
    /\ (fetch.op = "get_current_glucose" /\ fetch.synthetic) =>
          (60 <= fetch.sgv /\ fetch.sgv <= 250)

\* C17's case: a synthetic history of two hours returned with 24 rows, the
\* walk itself below 60 and the last row held at 60.
C17_Witness ==
    /\ fetch.op = "get_glucose_data" /\ fetch.synthetic /\ ~fetch.running
    /\ fetch.hours = 2 /\ fetch.rows = 24
    /\ fetch.base_glucose < 60 /\ fetch.sgv = 60

\* C18: a call on a NightscoutAPI object gives synthetic data if and only if
\* the object's dev_mode is true; dev_mode is true exactly when the URL handed
\* to the constructor is the placeholder, and no remote request is made by a
\* call while it is true.
C18_SyntheticIffDevMode ==
    /\ api.dev_mode <=> (api.arg = Placeholder)
    /\ fetch.op # "none" =>
          /\ fetch.synthetic <=> api.dev_mode
          /\ api.dev_mode => fetch.remote_calls = 0
          /\ ~api.dev_mode => fetch.remote_calls = 1

\* C18's case: a real endpoint whose request for the newest entry failed, and
\* the call raised without giving any data.
C18_Witness ==
    /\ ~api.dev_mode /\ fetch.op = "get_current_glucose"
    /\ fetch.outcome = "raised" /\ ~fetch.synthetic /\ fetch.remote_calls = 1

-----------------------------------------------------------------------------
(* Claims about the accounts, checked under SpecUsers *)

\* C16: after any calls of get_or_create_user there is exactly one account for
\* every email a call was made for, the one the first call created and every
\* later call returned, none for any other email, and its phone number is the
\* last non-empty one handed in for that email.
C16_OneAccountPerEmail ==
    /\ \A e \in DbEmails :
          LET ids == {i \in DOMAIN users : users[i].email = e}
          IN  /\ ~passed[e].seen => ids = {}
              /\ passed[e].seen =>
                    /\ ids = {passed[e].user_id}
                    /\ users[passed[e].user_id].phone_number = passed[e].phone_number
    /\ (dbcall.op = "get_or_create_user" /\ ~dbcall.raised) =>
          dbcall.user_id = passed[dbcall.email].user_id

\* C16's case: two accounts, and a call with an empty phone number for an
\* account made earlier, which keeps the number it had.
C16_Witness ==
    /\ Len(users) = 2
    /\ dbcall.op = "get_or_create_user" /\ ~dbcall.raised /\ ~dbcall.created
    /\ dbcall.phone_number = ""
    /\ users[dbcall.user_id].phone_number = "+1987654321"

-----------------------------------------------------------------------------
(* Claims about the readings, checked under SpecReadings *)

\* C14: in the ingestion of a fetched history a row whose save fails is
\* passed over, every other row is saved, the frame is processed afterwards,
\* and the number of failures is there after the batch.
C14_BatchFailuresSkippedAndCounted ==
    dbcall.op = "ingest" =>
        LET kept == SelectSeq(dbcall.frame, LAMBDA row : row.position \notin dbcall.failing)
        IN  /\ Len(readings) = dbcall.first_id - 1 + Len(kept)
            /\ \A k \in DOMAIN kept :
                  /\ readings[dbcall.first_id - 1 + k].glucose_value = kept[k].sgv
                  /\ readings[dbcall.first_id - 1 + k].date = kept[k].date
            /\ dbcall.processed /\ DOMAIN dbcall.stats # {}
            /\ Len(dbcall.log) = Cardinality(dbcall.failing)

\* C15: every reading saved for an account and taken within the last hours
\* hours is among the rows get_user_readings(user_id, hours) returns for that
\* account.
C15_SavedReadingsInWindowAreListed ==
    dbcall.op = "get_user_readings" =>
        \A i \in DOMAIN readings :
            ( /\ readings[i].user_id = dbcall.user_id
              /\ UtcNow - 60 * dbcall.hours <= readings[i].date
              /\ readings[i].date <= UtcNow )
            => \E k \in DOMAIN dbcall.rows : dbcall.rows[k] = i

\* C27: the glucose_readings table never holds two rows with the same
\* account, timestamp and source.
C27_OneReadingPerAccountTimestampSource ==
    \A i, j \in DOMAIN readings :
        ( /\ readings[i].user_id = readings[j].user_id
          /\ readings[i].timestamp = readings[j].timestamp
          /\ readings[i].source = readings[j].source )
        => i = j

====
